---- MODULE Spec2Model ----
(***************************************************************************)
(* Streaming response assemblers and batch fan-out of the InsightFinder AI *)
(* SDK.                                                                    *)
(*                                                                         *)
(*   LLMLabsClient.chat   src/insightfinder/client.py    (single-chunk     *)
(*                        evaluation detection)                            *)
(*   Client.chat          src/insightfinderai/client.py  (accumulating     *)
(*                        evaluation detection)                            *)
(*   Client.batch_chat / batch_evaluate / batch_safety_evaluation          *)
(*                        src/insightfinderai/client.py                    *)
(*                                                                         *)
(* Text is a sequence of tokens.  Each token stands for a piece of text:   *)
(*   "a", "b"   plain reply text (no brace, no word `evaluations`)         *)
(*   "{"  "}"   the braces of a JSON object                                *)
(*   "E1" "E2"  the member  "evaluations":[...]  with list ev1 / ev2       *)
(*   "T"        the member  ,"traceId":"t1"   (with its leading comma)     *)
(* Both assemblers read the same stream, one line per step.                *)
(***************************************************************************)
EXTENDS Integers, Sequences, FiniteSets, TLC

\* ------------------------------------------------------------------ bounds
MaxLines == 3

MaxItems == 3

\* max_workers: int = 3
DefaultMaxWorkers == 3

\* ------------------------------------------------------------------ values
\* Python None / JSON null
None == "None"

\* a key that is absent from a JSON object
NoKey == "NoKey"

EvalTokens == {"E1", "E2"}

\* `not x` for the values a model field can hold
Falsy(v) == v \in {None, ""}

RECURSIVE Concat(_)
\* "".join(seq of texts)
Concat(ss) == IF ss = <<>> THEN <<>> ELSE Head(ss) \o Concat(Tail(ss))

IsPrefix(s, t) == Len(s) <= Len(t) /\ SubSeq(t, 1, Len(s)) = s

\* ------------------------------------------------------------------ inputs
\* a choice of a chunk: kind "object" is a JSON object, kind "string" is a
\* choice that is not an object; ctag says what delta.content is: a string,
\* absent (no delta or no content key) or null
Choice(c) == [kind |-> "object", ctag |-> "str", content |-> c]

NoContentChoice == [kind |-> "object", ctag |-> "absent", content |-> <<>>]

NullContentChoice == [kind |-> "object", ctag |-> "null", content |-> <<>>]

NotAnObjectChoice == [kind |-> "string", ctag |-> "absent", content |-> <<>>]

\* a decoded chunk: kind "object" or "number" (a JSON value that is no object)
Chunk(m, i, has, chs) ==
    [kind |-> "object", model |-> m, id |-> i, hasChoices |-> has, choices |-> chs]

NumberChunk ==
    [kind |-> "number", model |-> NoKey, id |-> NoKey, hasChoices |-> FALSE, choices |-> <<>>]

Content(c) == Chunk(NoKey, NoKey, TRUE, <<Choice(c)>>)

\* a line of the stream: tag "blank" is the empty line, "text" a line without
\* the data: prefix, "data" a line with it; payload is what follows the
\* prefix (for a "text" line: the line itself): only whitespace, [START],
\* text that is not JSON, or JSON text
BlankLine == [tag |-> "blank", payload |-> "empty", chunk |-> NumberChunk]

\* the JSON text of a chunk on a line that lacks the data: prefix
TextLine == [tag |-> "text", payload |-> "json", chunk |-> Content(<<"a">>)]

DataEmpty == [tag |-> "data", payload |-> "empty", chunk |-> NumberChunk]

DataStart == [tag |-> "data", payload |-> "[START]", chunk |-> NumberChunk]

DataJunk == [tag |-> "data", payload |-> "not-json", chunk |-> NumberChunk]

Data(ch) == [tag |-> "data", payload |-> "json", chunk |-> ch]

\* complete evaluation payloads and their two-way splits
PayloadE == <<"{", "E1", "}">>

PayloadT == <<"{", "E2", "T", "}">>

Fragments == { <<"a">>, <<"b">>, PayloadE, PayloadT, <<"{", "E2">>, <<"T", "}">> }

Chunks ==
       { Content(f) : f \in Fragments }
  \cup { Chunk(m, NoKey, FALSE, <<>>) : m \in {"", "m1", "m2"} }
  \cup { Chunk(NoKey, i, FALSE, <<>>) : i \in {None, "i1", "i2"} }
  \cup { NumberChunk,
         Chunk(NoKey, NoKey, TRUE, <<NoContentChoice>>),
         Chunk("m1", "i1", TRUE, <<Choice(<<"a">>), NullContentChoice, Choice(<<"b">>)>>),
         Chunk(NoKey, NoKey, TRUE, <<Choice(<<"b">>), NotAnObjectChoice, Choice(<<"a">>)>>),
         Chunk(NoKey, NoKey, TRUE, <<Choice(<<"{", "E2">>), Choice(<<"T", "}">>)>>),
         Chunk(NoKey, NoKey, TRUE, <<Choice(<<"{">>), Choice(<<"E2", "T", "}">>)>>),
         Chunk(NoKey, "i1", TRUE, <<Choice(PayloadT)>>),
         Chunk("m2", "i2", TRUE, <<Choice(<<"a">>), Choice(<<"b">>)>>) }

Lines == {BlankLine, TextLine, DataEmpty, DataStart, DataJunk} \cup { Data(ch) : ch \in Chunks }

\* ------------------------------------------------------------------ state
VARIABLES
    consumed,            \* the lines iter_lines has yielded so far
    pc,                  \* "reading", "done" (stream ended), "broken"
    enable_evaluations,  \* Client.enable_evaluations
    labs,                \* locals of LLMLabsClient.chat
    chat,                \* locals of Client.chat
    labs_result,         \* what LLMLabsClient.chat returned
    chat_result,         \* what Client.chat returned
    op,                  \* which batch operation is called
    prompts,             \* the input list of the batch call
    collected,           \* the futures as_completed has yielded, in that order
    max_workers,         \* width of the ThreadPoolExecutor
    future,              \* per input: state of its future
    results,             \* the slot array of the batch call
    bpc,                 \* position of the batch call
    output,              \* the list the batch call returned
    call,                \* the operation called and its arguments
    cpc,                 \* position of the call
    requests,            \* the number of HTTP requests the call has issued
    reply,               \* the status code and body of the HTTP response
    error                \* the exception the call raised

streamVars == <<consumed, pc, enable_evaluations, labs, chat, labs_result, chat_result>>

batchVars == <<op, prompts, collected, max_workers, future, results, bpc, output>>

callVars == <<call, cpc, requests, reply, error>>

vars == <<consumed, pc, enable_evaluations, labs, chat, labs_result, chat_result,
          op, prompts, collected, max_workers, future, results, bpc, output,
          call, cpc, requests, reply, error>>

\* ------------------------------------------------------------------ parsing
\* a test that takes the payload of a line whether or not it has the data: prefix
HasPayloadAnyPrefix(line) == line.payload \notin {"empty", "[START]"}

\* line and line.startswith('data:'), then json_part and json_part != '[START]'
HasPayload(line) == line.tag = "data" /\ line.payload \notin {"empty", "[START]"}

\* json.loads(json_part) of a line succeeds
Decodes(line) == line.payload = "json"

\* content.startswith("{") and "evaluations" in content
IsEvalMarker(content) ==
    /\ Len(content) > 0
    /\ content[1] = "{"
    /\ \E k \in 1..Len(content) : content[k] \in EvalTokens

\* json.loads(text) of a content fragment or of the evaluation buffer:
\* the text is a JSON object exactly when it is  { }  around nothing, around
\* an evaluations member, or around an evaluations member and a traceId member
JsonLoads(text) ==
    LET n == Len(text)
        inner == IF n >= 2 THEN SubSeq(text, 2, n - 1) ELSE <<>>
        ok == /\ n >= 2
              /\ text[1] = "{"
              /\ text[n] = "}"
              /\ \/ inner = <<>>
                 \/ Len(inner) = 1 /\ inner[1] \in EvalTokens
                 \/ Len(inner) = 2 /\ inner[1] \in EvalTokens /\ inner[2] = "T"
    IN [ok |-> ok,
        evaluations |-> IF ok /\ Len(inner) >= 1
                        THEN (IF inner[1] = "E1" THEN "ev1" ELSE "ev2")
                        ELSE NoKey,
        traceId |-> IF ok /\ Len(inner) = 2 THEN "t1" ELSE NoKey]

\* eval_obj.get("evaluations")
GetEvaluations(obj) == IF obj.evaluations = NoKey THEN None ELSE obj.evaluations

\* eval_obj.get("traceId", trace_id)
GetTraceId(obj, trace_id) == IF obj.traceId = NoKey THEN trace_id ELSE obj.traceId

\* ------------------------------------------------------------------ history
\* log entries record what an assembler did, in processing order: an "id"
\* entry for every assignment trace_id = chunk["id"], a "frag" entry for every
\* content fragment that reached the evaluation-marker test, with the mode
\* (in_evaluation_block) it was met in and the text that json.loads accepted
\* while it was processed (<<>> when nothing was parsed)
IdEntry(v) == [ev |-> "id", id |-> v, content |-> <<>>, mode |-> FALSE, parsed |-> <<>>]

FragEntry(c, m, p) == [ev |-> "frag", id |-> None, content |-> c, mode |-> m, parsed |-> p]

\* ------------------------------------------------------------------ shared steps
\* results.append(chunk)
AppendChunk(rs, chunk) == Append(rs, chunk)

\* a capture that takes the model of every chunk (last-wins)
CaptureModelLast(model, chunk) ==
    IF chunk.model # NoKey THEN chunk.model ELSE model

\* if not model and "model" in chunk: model = chunk["model"]
CaptureModel(model, chunk) ==
    IF Falsy(model) /\ chunk.model # NoKey THEN chunk.model ELSE model

\* a capture that keeps the first value of trace_id (first-wins)
CaptureIdFirst(trace_id, chunk) ==
    IF chunk.id # NoKey /\ trace_id = None THEN chunk.id ELSE trace_id

\* if "id" in chunk: trace_id = chunk["id"]
CaptureId(trace_id, chunk) ==
    IF chunk.id # NoKey THEN chunk.id ELSE trace_id

\* an append that puts a separator between the fragments
AppendContentSeparated(response, content) ==
    IF response = <<>> THEN content ELSE response \o <<" ">> \o content

\* stitched_response += content
AppendContent(response, content) == response \o content

\* delta = choice.get("delta", {}); content = delta.get("content", "")
ContentOf(choice) == IF choice.ctag = "absent" THEN <<>> ELSE choice.content

\* a null content taken as the empty text
ChoiceRaisesOnlyNonObject(choice) == choice.kind # "object"

\* choice.get raises on a choice that is no object, content.startswith raises
\* on a null content
ChoiceRaises(choice) == choice.kind # "object" \/ choice.ctag = "null"

\* ------------------------------------------------------------------ LLMLabsClient.chat
LabsInit ==
    [results |-> <<>>, stitched_response |-> <<>>, evaluations |-> None,
     trace_id |-> None, model |-> None, log |-> <<>>]

\* the body of `for choice in chunk["choices"]` for a choice that does not raise
LabsChoice(st, choice) ==
    LET content == ContentOf(choice)
        obj == JsonLoads(content)
    IN IF IsEvalMarker(content)
       THEN IF obj.ok
            THEN [st EXCEPT !.evaluations = GetEvaluations(obj),
                            !.trace_id = GetTraceId(obj, st.trace_id),
                            !.log = Append(@, FragEntry(content, FALSE, content))]
            ELSE [st EXCEPT !.log = Append(@, FragEntry(content, FALSE, <<>>))]
       ELSE [st EXCEPT !.stitched_response = AppendContent(@, content),
                       !.log = Append(@, FragEntry(content, FALSE, <<>>))]

RECURSIVE LabsChoices(_, _)
\* the loop over the choices; a choice that raises ends the handling of the
\* chunk (except Exception: pass) with the effects so far kept
LabsChoices(st, choices) ==
    IF choices = <<>> THEN st
    ELSE IF ChoiceRaises(Head(choices)) THEN st
    ELSE LabsChoices(LabsChoice(st, Head(choices)), Tail(choices))

\* the handling of a decoded chunk
LabsChunk(st, chunk) ==
    LET st1 == [st EXCEPT !.results = AppendChunk(@, chunk)]
        st2 == [st1 EXCEPT !.model = CaptureModel(@, chunk),
                           !.trace_id = CaptureId(@, chunk),
                           !.log = IF chunk.id # NoKey THEN Append(@, IdEntry(chunk.id)) ELSE @]
    IN IF chunk.kind # "object" THEN st1
       ELSE IF chunk.hasChoices THEN LabsChoices(st2, chunk.choices)
       ELSE st2

\* json.loads(json_part) raised: except Exception: pass
LabsDecodeError(st) == st

\* the body of `for line in response.iter_lines(...)`
LabsLine(st, line) ==
    IF ~HasPayload(line) THEN st
    ELSE IF ~Decodes(line) THEN LabsDecodeError(st)
    ELSE LabsChunk(st, line.chunk)

\* return SimpleNamespace(...)
LabsReturn(st) ==
    [status |-> "returned", response |-> st.stitched_response,
     evaluations |-> st.evaluations, trace_id |-> st.trace_id,
     model |-> st.model, raw_chunks |-> st.results]

\* ------------------------------------------------------------------ Client.chat
ChatInit ==
    [results |-> <<>>, stitched_response |-> <<>>, evaluations |-> None,
     trace_id |-> None, model |-> None, evaluation_buffer |-> <<>>,
     in_evaluation_block |-> FALSE, log |-> <<>>]

\* an accumulation that also lets the fragment into the response
AccumulateLeaks(st, content) ==
    [st EXCEPT !.evaluation_buffer = @ \o content, !.stitched_response = @ \o content]

\* elif in_evaluation_block: the fragment goes to the buffer, never to the response
Accumulate(st, content) == [st EXCEPT !.evaluation_buffer = @ \o content]

\* an opening that parses the fragment at once when it is complete
OpenBlockParses(st, content) ==
    IF JsonLoads(content).ok
    THEN [st EXCEPT !.evaluations = GetEvaluations(JsonLoads(content)),
                    !.trace_id = GetTraceId(JsonLoads(content), st.trace_id)]
    ELSE [st EXCEPT !.in_evaluation_block = TRUE, !.evaluation_buffer = content]

\* in_evaluation_block = True; evaluation_buffer = content
OpenBlock(st, content) ==
    [st EXCEPT !.in_evaluation_block = TRUE, !.evaluation_buffer = content]

\* a commit that leaves the block open
CommitKeepsBlock(acc, obj) ==
    [acc EXCEPT !.evaluations = GetEvaluations(obj),
                !.trace_id = GetTraceId(obj, acc.trace_id)]

\* json.loads(evaluation_buffer) succeeded: the evaluations and the traceId
\* are taken, the block is closed and the buffer emptied
CommitEvaluation(acc, obj) ==
    [acc EXCEPT !.evaluations = GetEvaluations(obj),
                !.trace_id = GetTraceId(obj, acc.trace_id),
                !.in_evaluation_block = FALSE,
                !.evaluation_buffer = <<>>]

\* a body that tests the mode before the marker: while accumulating, a marker
\* fragment is added to the buffer like any other
ChatChoiceModeFirst(st, choice) ==
    LET content == ContentOf(choice)
        mode == st.in_evaluation_block
    IN IF st.in_evaluation_block
       THEN LET acc == Accumulate(st, content)
                obj == JsonLoads(acc.evaluation_buffer)
            IN IF obj.ok
               THEN [CommitEvaluation(acc, obj) EXCEPT
                                !.log = Append(@, FragEntry(content, mode, acc.evaluation_buffer))]
               ELSE [acc EXCEPT !.log = Append(@, FragEntry(content, mode, <<>>))]
       ELSE IF IsEvalMarker(content)
       THEN [OpenBlock(st, content) EXCEPT
                       !.log = Append(@, FragEntry(content, mode, <<>>))]
       ELSE [st EXCEPT !.stitched_response = AppendContent(@, content),
                       !.log = Append(@, FragEntry(content, mode, <<>>))]

\* the body of `for choice in chunk["choices"]` for a choice that does not raise
ChatChoice(st, choice) ==
    LET content == ContentOf(choice)
        mode == st.in_evaluation_block
    IN IF IsEvalMarker(content)
       THEN [OpenBlock(st, content) EXCEPT
                       !.log = Append(@, FragEntry(content, mode, <<>>))]
       ELSE IF st.in_evaluation_block
       THEN LET acc == Accumulate(st, content)
                obj == JsonLoads(acc.evaluation_buffer)
            IN IF obj.ok
               THEN [CommitEvaluation(acc, obj) EXCEPT
                                !.log = Append(@, FragEntry(content, mode, acc.evaluation_buffer))]
               ELSE [acc EXCEPT !.log = Append(@, FragEntry(content, mode, <<>>))]
       ELSE [st EXCEPT !.stitched_response = AppendContent(@, content),
                       !.log = Append(@, FragEntry(content, mode, <<>>))]

RECURSIVE ChatChoices(_, _)
\* the loop over the choices; a choice that raises ends the handling of the
\* chunk (bare except: pass) with the effects so far kept
ChatChoices(st, choices) ==
    IF choices = <<>> THEN st
    ELSE IF ChoiceRaises(Head(choices)) THEN st
    ELSE ChatChoices(ChatChoice(st, Head(choices)), Tail(choices))

\* the handling of a decoded chunk
ChatChunk(st, chunk) ==
    LET st1 == [st EXCEPT !.results = AppendChunk(@, chunk)]
        st2 == [st1 EXCEPT !.model = CaptureModel(@, chunk),
                           !.trace_id = CaptureId(@, chunk),
                           !.log = IF chunk.id # NoKey THEN Append(@, IdEntry(chunk.id)) ELSE @]
    IN IF chunk.kind # "object" THEN st1
       ELSE IF chunk.hasChoices THEN ChatChoices(st2, chunk.choices)
       ELSE st2

\* a decode error that ends the assembly with what was stitched thrown away
ChatDecodeErrorResets(st) == [st EXCEPT !.stitched_response = <<>>]

\* json.loads(json_part) raised: except: pass
ChatDecodeError(st) == st

\* the body of `for line in response.iter_lines(...)`
ChatLine(st, line) ==
    IF ~HasPayload(line) THEN st
    ELSE IF ~Decodes(line) THEN ChatDecodeError(st)
    ELSE ChatChunk(st, line.chunk)

\* ChatResponse.__init__: evaluations are kept only when truthy
ChatResponse(response, evaluations, trace_id, model, raw_chunks) ==
    [status |-> "returned", response |-> response,
     evaluations |-> IF Falsy(evaluations) THEN None ELSE evaluations,
     trace_id |-> trace_id, model |-> model, raw_chunks |-> raw_chunks]

\* a return that hands the evaluations out whatever the setting is
ChatReturnIgnoresSetting(st, enable) ==
    ChatResponse(st.stitched_response, st.evaluations, st.trace_id, st.model, st.results)

\* chat_response = ChatResponse(...); return chat_response
ChatReturn(st, enable) ==
    ChatResponse(st.stitched_response,
                 IF enable THEN st.evaluations ELSE None,
                 st.trace_id, st.model, st.results)

RECURSIVE ChatRun(_, _)
\* Client.chat's loop over a whole stream
ChatRun(st, lines) ==
    IF lines = <<>> THEN st ELSE ChatRun(ChatLine(st, Head(lines)), Tail(lines))

\* ------------------------------------------------------------------ results
Pending ==
    [status |-> "pending", response |-> <<>>, evaluations |-> None,
     trace_id |-> None, model |-> None, raw_chunks |-> <<>>]

\* raise ValueError(f"Request failed: {str(e)}")
Raised ==
    [status |-> "raised", response |-> <<>>, evaluations |-> None,
     trace_id |-> None, model |-> None, raw_chunks |-> <<>>]

\* ------------------------------------------------------------------ single calls
\* no HTTP response yet
NoReply == [status |-> 0, body |-> ""]

\* no exception raised
NoError == [type |-> "none", label |-> "", code |-> 0, body |-> ""]

NoCall ==
    [op |-> "none", prompt |-> "", response |-> "", model_version |-> None,
     model_id_type |-> None, user_created_model_name |-> None]

CallIdle ==
    /\ call = NoCall
    /\ cpc = "idle"
    /\ requests = 0
    /\ reply = NoReply
    /\ error = NoError

\* ------------------------------------------------------------------ stream actions
BatchIdle ==
    /\ op = "none"
    /\ prompts = <<>>
    /\ collected = <<>>
    /\ max_workers = DefaultMaxWorkers
    /\ future = <<>>
    /\ results = <<>>
    /\ bpc = "idle"
    /\ output = <<>>

Init ==
    /\ consumed = <<>>
    /\ pc = "reading"
    /\ enable_evaluations \in BOOLEAN
    /\ labs = LabsInit
    /\ chat = ChatInit
    /\ labs_result = Pending
    /\ chat_result = Pending
    /\ BatchIdle
    /\ CallIdle

\* iter_lines yields one more line and both loops run their body on it
ConsumeLine ==
    /\ pc = "reading"
    /\ Len(consumed) < MaxLines
    /\ \E line \in Lines :
          /\ consumed' = Append(consumed, line)
          /\ labs' = LabsLine(labs, line)
          /\ chat' = ChatLine(chat, line)
    /\ UNCHANGED <<pc, enable_evaluations, labs_result, chat_result>>
    /\ UNCHANGED batchVars
    /\ UNCHANGED callVars

\* the stream ends: both calls build and return their result
EndOfStream ==
    /\ pc = "reading"
    /\ pc' = "done"
    /\ labs_result' = LabsReturn(labs)
    /\ chat_result' = ChatReturn(chat, enable_evaluations)
    /\ UNCHANGED <<consumed, enable_evaluations, labs, chat>>
    /\ UNCHANGED batchVars
    /\ UNCHANGED callVars

\* iter_lines raises ChunkedEncodingError: LLMLabsClient.chat prints and
\* returns what it has; Client.chat's except RequestException re-raises it
\* as ValueError
StreamBroken ==
    /\ pc = "reading"
    /\ pc' = "broken"
    /\ labs_result' = LabsReturn(labs)
    /\ chat_result' = Raised
    /\ UNCHANGED <<consumed, enable_evaluations, labs, chat>>
    /\ UNCHANGED batchVars
    /\ UNCHANGED callVars

Next == ConsumeLine \/ EndOfStream \/ StreamBroken

Spec == Init /\ [][Next]_vars

\* ------------------------------------------------------------------ the stream as read
\* the chunks of the lines that carry a payload and decode, in arrival order
DecodedChunks(lines) ==
    LET dec == SelectSeq(lines, LAMBDA l : HasPayload(l) /\ Decodes(l))
    IN [k \in 1..Len(dec) |-> dec[k].chunk]

\* a chunk of the documented shape: an object whose choices are objects with
\* a string (or no) content
ValidChunk(ch) ==
    /\ ch.kind = "object"
    /\ \A k \in 1..Len(ch.choices) : ~ChoiceRaises(ch.choices[k])

\* every line with a payload decodes to a chunk of the documented shape
ValidStream(lines) ==
    \A k \in 1..Len(lines) :
        HasPayload(lines[k]) => Decodes(lines[k]) /\ ValidChunk(lines[k].chunk)

\* the delta.content fragments of a chunk, choice by choice
ChunkFragments(ch) ==
    IF ch.kind = "object" /\ ch.hasChoices
    THEN [k \in 1..Len(ch.choices) |-> ContentOf(ch.choices[k])]
    ELSE <<>>

\* the fragments of all chunks of the stream, in arrival order
StreamFragments(lines) ==
    LET chs == DecodedChunks(lines)
    IN Concat([k \in 1..Len(chs) |-> ChunkFragments(chs[k])])

NoMarkers(lines) ==
    LET fs == StreamFragments(lines)
    IN \A k \in 1..Len(fs) : ~IsEvalMarker(fs[k])

\* ------------------------------------------------------------------ C1
\* C1: for a stream of valid chunks in which no fragment passes the
\* evaluation-marker test, the response of both assemblers (while reading
\* and in the returned result) is the concatenation, in arrival order and
\* without separator, of every delta.content fragment of every choice of
\* every chunk.
C1_ResponseIsConcatenation ==
    (ValidStream(consumed) /\ NoMarkers(consumed)) =>
        LET all == Concat(StreamFragments(consumed))
        IN /\ labs.stitched_response = all
           /\ chat.stitched_response = all
           /\ labs_result.status = "returned" => labs_result.response = all
           /\ chat_result.status = "returned" => chat_result.response = all

C1_Witness ==
    /\ pc = "done"
    /\ ValidStream(consumed) /\ NoMarkers(consumed)
    /\ Len(StreamFragments(consumed)) >= 4
    /\ chat_result.response = <<"a", "b", "b", "a">>
    /\ labs_result.response = <<"a", "b", "b", "a">>

\* ------------------------------------------------------------------ C2
\* the contents of the "frag" entries of a log
LogFragments(log) ==
    LET fr == SelectSeq(log, LAMBDA e : e.ev = "frag")
    IN [k \in 1..Len(fr) |-> fr[k].content]

\* the text of the fragments that were met in normal mode and did not pass
\* the evaluation-marker test
NormalText(log) ==
    LET fr == SelectSeq(log, LAMBDA e : e.ev = "frag" /\ ~e.mode /\ ~IsEvalMarker(e.content))
    IN Concat([k \in 1..Len(fr) |-> fr[k].content])

\* the fragments of a chunk that the loop over the choices reaches: those
\* before the first choice that raises
RECURSIVE ReachedChoices(_)
ReachedChoices(choices) ==
    IF choices = <<>> \/ ChoiceRaises(Head(choices)) THEN <<>>
    ELSE <<ContentOf(Head(choices))>> \o ReachedChoices(Tail(choices))

ReachedFragments(lines) ==
    LET chs == DecodedChunks(lines)
    IN Concat([k \in 1..Len(chs) |->
                 IF chs[k].kind = "object" /\ chs[k].hasChoices
                 THEN ReachedChoices(chs[k].choices) ELSE <<>>])

C2_State ==
    /\ LogFragments(labs.log) = ReachedFragments(consumed)
    /\ LogFragments(chat.log) = ReachedFragments(consumed)
    /\ labs.stitched_response = NormalText(labs.log)
    /\ chat.stitched_response = NormalText(chat.log)
    /\ labs_result.status = "returned" => labs_result.response = NormalText(labs.log)
    /\ chat_result.status = "returned" => chat_result.response = NormalText(chat.log)

C2_Step ==
    /\ IsPrefix(labs.stitched_response, labs.stitched_response')
    /\ IsPrefix(chat.stitched_response, chat.stitched_response')

\* C2: in every reachable state of both assemblers and in the returned
\* result, response is exactly the text of the fragments that were processed
\* in normal mode (met outside an evaluation block and not passing the
\* evaluation-marker test), and every step only appends to response.
C2_ResponseOnlyNormalFragments == [](C2_State) /\ [][C2_Step]_vars

C2_Witness ==
    /\ pc = "done"
    /\ chat_result.response = <<"a">>
    /\ labs_result.response = <<"a", "b">>
    /\ \E k \in 1..Len(chat.log) : chat.log[k].ev = "frag" /\ chat.log[k].mode
                                    /\ chat.log[k].content = <<"b">>
    /\ \E k \in 1..Len(chat.log) : IsEvalMarker(chat.log[k].content)

\* ------------------------------------------------------------------ C3
PlainTokens == {"a", "b"}

IsPlain(text) == \A k \in 1..Len(text) : text[k] \in PlainTokens

\* a fragment that is, on its own, a complete evaluation payload with a traceId
IsCompletePayload(f) ==
    IsEvalMarker(f) /\ JsonLoads(f).ok /\ JsonLoads(f).traceId # NoKey

\* the stream holds exactly one complete payload fragment, at position k of
\* its fragments, and only plain text otherwise
SinglePayloadAt(lines, k) ==
    LET fs == StreamFragments(lines)
    IN /\ ValidStream(lines)
       /\ k \in 1..Len(fs)
       /\ IsCompletePayload(fs[k])
       /\ \A j \in 1..Len(fs) : j # k => IsPlain(fs[j])

PayloadDelivered(result, payload) ==
    /\ result.evaluations = GetEvaluations(JsonLoads(payload))
    /\ result.trace_id = JsonLoads(payload).traceId
    /\ IsPlain(result.response)

\* C3: a stream with one content fragment that is a complete, self-contained
\* evaluation payload, wherever it sits (also as the last fragment), gives in
\* both assemblers (Client.chat with evaluations enabled) a result whose
\* evaluations are the payload's list, whose trace_id is the payload's
\* traceId and whose response holds nothing of that fragment.
C3_SelfContainedPayload ==
    (pc = "done" /\ enable_evaluations) =>
        \A k \in 1..Len(StreamFragments(consumed)) :
            SinglePayloadAt(consumed, k) =>
                /\ PayloadDelivered(labs_result, StreamFragments(consumed)[k])
                /\ PayloadDelivered(chat_result, StreamFragments(consumed)[k])

\* ------------------------------------------------------------------ C4
\* line k carries a chunk whose two choices are the two halves of a complete
\* evaluation payload
SplitInChunk(lines, k) ==
    /\ HasPayload(lines[k]) /\ Decodes(lines[k])
    /\ ValidChunk(lines[k].chunk)
    /\ lines[k].chunk.hasChoices
    /\ Len(lines[k].chunk.choices) = 2
    /\ IsCompletePayload(ContentOf(lines[k].chunk.choices[1]) \o ContentOf(lines[k].chunk.choices[2]))

\* the same stream with the payload of line k in one fragment
JoinInChunk(lines, k) ==
    LET ch == lines[k].chunk
        whole == ContentOf(ch.choices[1]) \o ContentOf(ch.choices[2])
    IN [lines EXCEPT ![k] = Data([ch EXCEPT !.choices = <<Choice(whole)>>])]

\* lines k and k+1 carry one fragment each, the two halves of a complete
\* evaluation payload
SplitAcrossLines(lines, k) ==
    /\ k + 1 <= Len(lines)
    /\ \A j \in {k, k + 1} :
          /\ HasPayload(lines[j]) /\ Decodes(lines[j])
          /\ lines[j].chunk \in { Content(f) : f \in Fragments }
    /\ IsCompletePayload(ContentOf(lines[k].chunk.choices[1])
                           \o ContentOf(lines[k + 1].chunk.choices[1]))

\* the same stream with the payload of lines k, k+1 in one fragment on one line
JoinAcrossLines(lines, k) ==
    LET whole == ContentOf(lines[k].chunk.choices[1]) \o ContentOf(lines[k + 1].chunk.choices[1])
    IN SubSeq(lines, 1, k - 1) \o <<Data(Content(whole))>> \o SubSeq(lines, k + 2, Len(lines))

SameAnswer(r1, r2) ==
    /\ r1.response = r2.response
    /\ r1.evaluations = r2.evaluations
    /\ r1.trace_id = r2.trace_id

\* C4: in Client.chat a stream in which an evaluation payload is split, at
\* any position, into two consecutive content fragments returns the same
\* response, evaluations and trace_id as the stream in which the payload
\* arrives as one fragment at that place.
C4_SplitEqualsWhole ==
    pc = "done" =>
        \A k \in 1..Len(consumed) :
            /\ SplitInChunk(consumed, k) =>
                  SameAnswer(chat_result,
                             ChatReturn(ChatRun(ChatInit, JoinInChunk(consumed, k)),
                                        enable_evaluations))
            /\ SplitAcrossLines(consumed, k) =>
                  SameAnswer(chat_result,
                             ChatReturn(ChatRun(ChatInit, JoinAcrossLines(consumed, k)),
                                        enable_evaluations))

\* ------------------------------------------------------------------ C5
RECURSIVE LabsRun(_, _)
\* LLMLabsClient.chat's loop over a whole stream
LabsRun(st, lines) ==
    IF lines = <<>> THEN st ELSE LabsRun(LabsLine(st, Head(lines)), Tail(lines))

\* a data line whose payload is not valid JSON
IsMalformed(line) == HasPayload(line) /\ ~Decodes(line)

WithoutMalformed(lines) == SelectSeq(lines, LAMBDA l : ~IsMalformed(l))

C5_State ==
    /\ labs.results = DecodedChunks(consumed)
    /\ chat.results = DecodedChunks(consumed)
    /\ labs = LabsRun(LabsInit, WithoutMalformed(consumed))
    /\ chat = ChatRun(ChatInit, WithoutMalformed(consumed))
    /\ labs_result.status = "returned" => labs_result.raw_chunks = DecodedChunks(consumed)
    /\ chat_result.status = "returned" => chat_result.raw_chunks = DecodedChunks(consumed)

C5_Step ==
    (Len(consumed') = Len(consumed) + 1 /\ IsMalformed(consumed'[Len(consumed')])) =>
        /\ labs' = labs
        /\ chat' = chat
        /\ pc' = "reading"

\* C5: in both assemblers a data line whose payload is not valid JSON changes
\* nothing of the assembler state and does not stop the reading: raw_chunks
\* holds one entry per decoded line in arrival order, and the state is what
\* reading the stream without the malformed lines gives.
C5_MalformedLineDiscarded == [](C5_State) /\ [][C5_Step]_vars

C5_Witness ==
    /\ pc = "done"
    /\ Len(consumed) = 3
    /\ consumed[1] = Data(Content(<<"a">>))
    /\ IsMalformed(consumed[2])
    /\ consumed[3] = Data(Content(<<"b">>))
    /\ Len(chat_result.raw_chunks) = 2 /\ Len(labs_result.raw_chunks) = 2
    /\ chat_result.response = <<"a", "b">> /\ labs_result.response = <<"a", "b">>

\* ------------------------------------------------------------------ C6
\* the model values carried by the chunks of the stream, nulls left out
CarriedModels(lines) ==
    LET chs == SelectSeq(DecodedChunks(lines),
                         LAMBDA ch : ch.kind = "object" /\ ch.model \notin {NoKey, None})
    IN [k \in 1..Len(chs) |-> chs[k].model]

TruthyModels(lines) == SelectSeq(CarriedModels(lines), LAMBDA m : ~Falsy(m))

C6_State ==
    TruthyModels(consumed) # <<>> =>
        /\ labs.model = Head(TruthyModels(consumed))
        /\ chat.model = Head(TruthyModels(consumed))
        /\ labs_result.status = "returned" => labs_result.model = Head(TruthyModels(consumed))
        /\ chat_result.status = "returned" => chat_result.model = Head(TruthyModels(consumed))

C6_Step ==
    /\ ~Falsy(labs.model) => labs.model' = labs.model
    /\ ~Falsy(chat.model) => chat.model' = chat.model

CarriedIds(lines) ==
    LET chs == SelectSeq(DecodedChunks(lines), LAMBDA ch : ch.kind = "object" /\ ch.id # NoKey)
    IN [k \in 1..Len(chs) |-> chs[k].id]

LogIds(log) ==
    LET es == SelectSeq(log, LAMBDA e : e.ev = "id")
    IN [k \in 1..Len(es) |-> es[k].id]

\* the entry recorded the parsing of a payload that has a traceId
ParsedTrace(e) == e.ev = "frag" /\ e.parsed # <<>> /\ JsonLoads(e.parsed).traceId # NoKey

Last(seq) == seq[Len(seq)]

\* C7 as stated: the traceId of a parsed payload if there is one, otherwise
\* the last non-null chunk id
StatedTraceId(lines, log) ==
    LET tr == SelectSeq(log, ParsedTrace)
        ids == SelectSeq(CarriedIds(lines), LAMBDA i : i # None)
    IN IF tr # <<>> THEN JsonLoads(Last(tr).parsed).traceId
       ELSE IF ids # <<>> THEN Last(ids)
       ELSE None

C7_PayloadTraceIdPrevails ==
    /\ labs.trace_id = StatedTraceId(consumed, labs.log)
    /\ chat.trace_id = StatedTraceId(consumed, chat.log)

\* the value of the last assignment to trace_id the log records
LastAssigned(log) ==
    LET ws == SelectSeq(log, LAMBDA e : e.ev = "id" \/ ParsedTrace(e))
    IN IF ws = <<>> THEN None
       ELSE IF Last(ws).ev = "id" THEN Last(ws).id
       ELSE JsonLoads(Last(ws).parsed).traceId

\* C7 (amended): in both assemblers trace_id is the value of the most recent
\* assignment in processing order, where every decoded chunk with an id key
\* assigns its id (null included) and every parsed evaluation payload with a
\* traceId assigns that traceId; a chunk id that arrives after the payload
\* replaces the payload's traceId.
C7_LastAssignmentWins ==
    /\ LogIds(labs.log) = CarriedIds(consumed)
    /\ LogIds(chat.log) = CarriedIds(consumed)
    /\ labs.trace_id = LastAssigned(labs.log)
    /\ chat.trace_id = LastAssigned(chat.log)
    /\ labs_result.status = "returned" => labs_result.trace_id = LastAssigned(labs.log)
    /\ chat_result.status = "returned" => chat_result.trace_id = LastAssigned(chat.log)

C7_Witness ==
    /\ pc = "done"
    /\ \E k \in 1..Len(chat.log) : ParsedTrace(chat.log[k])
    /\ \E k \in 1..Len(labs.log) : ParsedTrace(labs.log[k])
    /\ Last(chat.log).ev = "id"
    /\ chat_result.trace_id = "i2"
    /\ labs_result.trace_id = "i2"

\* ------------------------------------------------------------------ batch operations
Ops == {"batch_chat", "batch_evaluate", "batch_safety_evaluation"}

\* an input of a batch: "q" is a well-formed input, "" an empty prompt (for
\* batch_evaluate: a pair with an empty prompt or response)
Inputs == {"q", ""}

\* the ways an item's call raises: ValueError of the validation, of a failed
\* request, of a non-2xx status, and the error of decoding the body
Failures == {"validation", "network", "status", "decode"}

\* a slot of the results array: None or one result
NoneSlot == <<>>

\* what self.chat / self.evaluate / self.safety_evaluation returns for input idx
ItemResult(ps, idx) == [idx |-> idx, prompt |-> ps[idx]]

\* a store that fills the slots in completion order
StoreResultNextFree(rs, idx, r) ==
    LET free == { k \in 1..Len(rs) : rs[k] = NoneSlot }
        first == CHOOSE k \in free : \A j \in free : k <= j
    IN [rs EXCEPT ![first] = <<r>>]

\* results[idx] = response
StoreResult(rs, idx, r) == [rs EXCEPT ![idx] = <<r>>]

\* except Exception: idx = future_to_prompt[future]; results[idx] = None
StoreNone(rs, idx) == [rs EXCEPT ![idx] = NoneSlot]

\* an item's exception that leaves the batch call
AfterItemErrorRaises(p) == "ValueError"

\* where the batch call stands after an item's exception was caught
AfterItemError(p) == p

\* a return that marks the None slots instead of dropping them
FilterNoneMarks(rs) ==
    [k \in 1..Len(rs) |-> IF rs[k] = NoneSlot THEN [idx |-> 0, prompt |-> "None"] ELSE rs[k][1]]

\* return [r for r in results if r is not None]
FilterNone(rs) ==
    LET kept == SelectSeq(rs, LAMBDA slot : slot # NoneSlot)
    IN [k \in 1..Len(kept) |-> kept[k][1]]

Finished(f) == f \in {"returned"} \cup Failures

Running == { i \in 1..Len(future) : future[i] = "running" }

Queued == { i \in 1..Len(future) : future[i] = "pending" }

InitBatch ==
    /\ consumed = <<>>
    /\ pc = "reading"
    /\ enable_evaluations = TRUE
    /\ labs = LabsInit
    /\ chat = ChatInit
    /\ labs_result = Pending
    /\ chat_result = Pending
    /\ op \in Ops
    /\ prompts \in UNION { [1..n -> Inputs] : n \in 0..MaxItems }
    /\ max_workers \in 1..DefaultMaxWorkers
    /\ collected = <<>>
    /\ future = <<>>
    /\ results = <<>>
    /\ bpc = "called"
    /\ output = <<>>
    /\ CallIdle

\* the call up to the start of the as_completed loop: the check of the input
\* list, the submission of one task per input, the allocation of the slots
BatchStart ==
    /\ bpc = "called"
    /\ IF prompts = <<>>
       THEN /\ bpc' = "ValueError"
            /\ UNCHANGED <<future, results>>
       ELSE /\ bpc' = "collecting"
            /\ future' = [i \in 1..Len(prompts) |-> "pending"]
            /\ results' = [i \in 1..Len(prompts) |-> NoneSlot]
    /\ UNCHANGED <<op, prompts, collected, max_workers, output>>
    /\ UNCHANGED streamVars
    /\ UNCHANGED callVars

\* a free worker thread takes the oldest queued task
WorkerStart(i) ==
    /\ i \in Queued
    /\ \A j \in Queued : i <= j
    /\ Cardinality(Running) < max_workers
    /\ future' = [future EXCEPT ![i] = "running"]
    /\ UNCHANGED <<op, prompts, collected, max_workers, results, bpc, output>>
    /\ UNCHANGED streamVars
    /\ UNCHANGED callVars

\* the item's call ends: an empty prompt raises in the validation, any other
\* input returns or raises
WorkerFinish(i) ==
    /\ i \in Running
    /\ \E r \in {"returned"} \cup Failures :
          /\ (prompts[i] = "") <=> (r = "validation")
          /\ future' = [future EXCEPT ![i] = r]
    /\ UNCHANGED <<op, prompts, collected, max_workers, results, bpc, output>>
    /\ UNCHANGED streamVars
    /\ UNCHANGED callVars

\* one iteration of `for future in as_completed(...)`
Collect(i) ==
    /\ bpc = "collecting"
    /\ i \in 1..Len(future)
    /\ Finished(future[i])
    /\ \A k \in 1..Len(collected) : collected[k] # i
    /\ collected' = Append(collected, i)
    /\ IF future[i] = "returned"
       THEN /\ results' = StoreResult(results, i, ItemResult(prompts, i))
            /\ bpc' = bpc
       ELSE /\ results' = StoreNone(results, i)
            /\ bpc' = AfterItemError(bpc)
    /\ UNCHANGED <<op, prompts, max_workers, future, output>>
    /\ UNCHANGED streamVars
    /\ UNCHANGED callVars

\* as_completed is exhausted, the executor is shut down, the list is returned
BatchReturn ==
    /\ bpc = "collecting"
    /\ Len(collected) = Len(prompts)
    /\ bpc' = "returned"
    /\ output' = FilterNone(results)
    /\ UNCHANGED <<op, prompts, collected, max_workers, future, results>>
    /\ UNCHANGED streamVars
    /\ UNCHANGED callVars

NextBatch ==
    \/ BatchStart
    \/ \E i \in 1..MaxItems : WorkerStart(i)
    \/ \E i \in 1..MaxItems : WorkerFinish(i)
    \/ \E i \in 1..MaxItems : Collect(i)
    \/ BatchReturn

BatchSpec == InitBatch /\ [][NextBatch]_vars

\* ------------------------------------------------------------------ C8
\* the inputs whose call returned, in input order
Succeeded == SelectSeq([i \in 1..Len(future) |-> i], LAMBDA i : future[i] = "returned")

\* the inputs whose call raised
Failed == { i \in 1..Len(future) : future[i] \in Failures }

\* C8: under every interleaving and completion order of the workers the
\* list returned by a batch operation holds results in the order of their
\* inputs: each entry is the result of its own input, and the result of
\* input i stands before the result of input j whenever i < j.
C8_OutputInInputOrder ==
    bpc = "returned" =>
        /\ \A a \in 1..Len(output) :
              /\ output[a].idx \in 1..Len(prompts)
              /\ output[a] = ItemResult(prompts, output[a].idx)
        /\ \A a, b \in 1..Len(output) : a < b => output[a].idx < output[b].idx

C8_Witness ==
    /\ bpc = "returned"
    /\ Len(output) = 3
    /\ collected = <<3, 1, 2>>

\* ------------------------------------------------------------------ C9
\* C9 as stated: with exactly one failing item the returned list has one
\* position per input.
C9_LengthIsN ==
    (bpc = "returned" /\ Cardinality(Failed) = 1) => Len(output) = Len(prompts)

\* C9 (amended): when exactly one item of a batch of N inputs raises, the
\* slot array has length N with the failing item's slot None and every other
\* slot holding that input's result, and the returned list is the slot array
\* without the None slot: length N-1, the results of the other inputs in input
\* order (3 inputs, the middle one raises: length 2, results of inputs 0, 2).
C9_FailedSlotFilteredOut ==
    (bpc = "returned" /\ Cardinality(Failed) = 1) =>
        /\ Len(results) = Len(prompts)
        /\ \A i \in 1..Len(prompts) :
              results[i] = IF i \in Failed THEN NoneSlot ELSE <<ItemResult(prompts, i)>>
        /\ Len(output) = Len(prompts) - 1
        /\ output = [k \in 1..Len(Succeeded) |-> ItemResult(prompts, Succeeded[k])]

C9_Witness ==
    /\ bpc = "returned"
    /\ Len(prompts) = 3
    /\ Failed = {2}
    /\ output = <<ItemResult(prompts, 1), ItemResult(prompts, 3)>>

\* ------------------------------------------------------------------ C10
C10_State ==
    prompts # <<>> =>
        /\ bpc \in {"called", "collecting", "returned"}
        /\ bpc = "returned" =>
              /\ \A i \in 1..Len(prompts) : Finished(future[i])
              /\ \A i \in 1..Len(prompts) :
                    future[i] = "returned" =>
                        \E a \in 1..Len(output) : output[a] = ItemResult(prompts, i)
        /\ (bpc = "collecting" /\ Len(collected) = Len(prompts)) => ENABLED BatchReturn

C10_Step ==
    /\ \A i \in 1..Len(future) :
          Finished(future[i]) => (Len(future') = Len(future) /\ future'[i] = future[i])
    /\ \A i, j \in 1..Len(future) :
          (i # j /\ Len(future') = Len(future) /\ future'[i] # future[i]) =>
              (future'[j] = future[j] /\ results' = results)
    /\ \A i \in 1..Len(results) :
          (Len(results') = Len(results) /\ results[i] # NoneSlot) => results'[i] = results[i]

\* C10: in a batch with a non-empty input list an item's exception never
\* leaves the batch call and never touches the siblings: the call only ever
\* is before the loop, in it or returned; a step that changes one future
\* changes no other future and no slot; a filled slot stays as it is; the
\* call can return once every future was collected; at the return every
\* input has run and the result of every item that succeeded is in the output.
C10_FailureIsolation == [](C10_State) /\ [][C10_Step]_vars

C10_Witness ==
    /\ bpc = "returned"
    /\ Len(prompts) = 3
    /\ future[1] \in Failures /\ future[2] = "returned" /\ future[3] \in Failures
    /\ collected[1] = 1
    /\ output = <<ItemResult(prompts, 2)>>

\* ------------------------------------------------------------------ C11
\* C11: when the transport signals a broken connection after some lines were
\* consumed, neither streaming chat call fails: each returns the result built
\* from the lines consumed so far (response, evaluations, trace_id, model and
\* raw_chunks as they stood at the break).
C11_PartialResultOnBreak ==
    (pc = "broken" /\ consumed # <<>>) =>
        /\ labs_result.status = "returned"
        /\ labs_result = LabsReturn(LabsRun(LabsInit, consumed))
        /\ chat_result.status = "returned"
        /\ chat_result = ChatReturn(ChatRun(ChatInit, consumed), enable_evaluations)

\* ------------------------------------------------------------------ the single operations
SingleOps == {"LLMLabsClient.chat", "Client.chat", "Client.evaluate", "Client.safety_evaluation"}

\* prompts: empty, whitespace only, a question
Prompts == {"", " ", "q"}

\* the calls of the single operations; the arguments an operation does not
\* take are fixed
Calls ==
       { [op |-> "LLMLabsClient.chat", prompt |-> p, response |-> "",
          model_version |-> mv, model_id_type |-> mt, user_created_model_name |-> un]
            : p \in Prompts, mv \in {None, "v"}, mt \in {None, "v"}, un \in {None, "v"} }
  \cup { [op |-> o, prompt |-> p, response |-> "",
          model_version |-> None, model_id_type |-> None, user_created_model_name |-> None]
            : o \in {"Client.chat", "Client.safety_evaluation"}, p \in Prompts }
  \cup { [op |-> "Client.evaluate", prompt |-> p, response |-> r,
          model_version |-> None, model_id_type |-> None, user_created_model_name |-> None]
            : p \in Prompts, r \in {"", " ", "r"} }

\* status codes around the borders of the classes, and bodies
Statuses == {100, 200, 299, 300, 400, 404, 499, 500, 599, 600}

Bodies == {"", "not found"}

\* str.strip()
Strip(text) == IF text = " " THEN "" ELSE text

\* a validation of Client.evaluate that forgets the response
ValidationMessagePromptOnly(c) ==
    IF c.op = "LLMLabsClient.chat"
    THEN IF c.prompt = "" THEN "Prompt cannot be empty."
         ELSE IF c.model_version = None THEN "Model version must be specified."
         ELSE IF c.model_id_type = None THEN "Model ID type must be specified."
         ELSE IF c.user_created_model_name = None THEN "User created model name must be specified."
         ELSE ""
    ELSE IF Strip(c.prompt) = "" THEN "Prompt cannot be empty"
    ELSE ""

\* the checks at the head of each operation: the message of the ValueError
\* raised, "" when the arguments pass
ValidationMessage(c) ==
    IF c.op = "LLMLabsClient.chat"
    THEN IF c.prompt = "" THEN "Prompt cannot be empty."
         ELSE IF c.model_version = None THEN "Model version must be specified."
         ELSE IF c.model_id_type = None THEN "Model ID type must be specified."
         ELSE IF c.user_created_model_name = None THEN "User created model name must be specified."
         ELSE ""
    ELSE IF Strip(c.prompt) = "" THEN "Prompt cannot be empty"
    ELSE IF c.op = "Client.evaluate" /\ Strip(c.response) = "" THEN "Response cannot be empty"
    ELSE ""

\* a success test that lets 300 through
Is2xxInclusive(status) == 200 <= status /\ status <= 300

\* 200 <= response.status_code < 300
Is2xx(status) == 200 <= status /\ status < 300

\* the ValueError LLMLabsClient.chat raises for a status that is not 2xx
LabsStatusError(status, body) ==
    [type |-> "ValueError",
     label |-> IF 400 <= status /\ status < 500 THEN "Client error"
               ELSE IF 500 <= status /\ status < 600 THEN "Server error"
               ELSE "Unexpected status code",
     code |-> status, body |-> body]

\* the ValueError Client.chat / evaluate / safety_evaluation raise for a
\* status that is not 2xx
ClientStatusError(o, status, body) ==
    [type |-> "ValueError",
     label |-> IF o = "Client.chat" THEN "API error"
               ELSE IF o = "Client.evaluate" THEN "Evaluation API error"
               ELSE "Safety API error",
     code |-> status, body |-> body]

\* requests.post raised: LLMLabsClient.chat lets the exception through, the
\* operations of Client turn it into ValueError
RequestError(o) ==
    [type |-> IF o = "LLMLabsClient.chat" THEN "RequestException" ELSE "ValueError",
     label |-> IF o = "LLMLabsClient.chat" THEN "request"
               ELSE IF o = "Client.chat" THEN "Request failed"
               ELSE IF o = "Client.evaluate" THEN "Evaluation request failed"
               ELSE "Safety evaluation request failed",
     code |-> 0, body |-> ""]

InitCall ==
    \/ /\ consumed = <<>>
       /\ pc = "reading"
       /\ enable_evaluations = TRUE
       /\ labs = LabsInit
       /\ chat = ChatInit
       /\ labs_result = Pending
       /\ chat_result = Pending
       /\ BatchIdle
       /\ call \in Calls
       /\ cpc = "called"
       /\ requests = 0
       /\ reply = NoReply
       /\ error = NoError
    \/ InitBatch

\* the operation from its entry to requests.post: the checks of the
\* arguments, then the request
SendRequest ==
    /\ cpc = "called"
    /\ IF ValidationMessage(call) # ""
       THEN /\ cpc' = "raised"
            /\ error' = [type |-> "ValueError", label |-> ValidationMessage(call),
                         code |-> 0, body |-> ""]
            /\ UNCHANGED requests
       ELSE /\ cpc' = "awaiting"
            /\ requests' = requests + 1
            /\ UNCHANGED error
    /\ UNCHANGED <<call, reply>>
    /\ UNCHANGED streamVars
    /\ UNCHANGED batchVars

\* requests.post returns or raises; the status of the response is tested
\* before the stream or the body is read
ReceiveReply ==
    /\ cpc = "awaiting"
    /\ \/ /\ cpc' = "raised"
          /\ error' = RequestError(call.op)
          /\ UNCHANGED reply
       \/ \E st \in Statuses, body \in Bodies :
             /\ reply' = [status |-> st, body |-> body]
             /\ IF Is2xx(st)
                THEN /\ cpc' = "consuming"
                     /\ UNCHANGED error
                ELSE /\ cpc' = "raised"
                     /\ error' = IF call.op = "LLMLabsClient.chat"
                                 THEN LabsStatusError(st, body)
                                 ELSE ClientStatusError(call.op, st, body)
    /\ UNCHANGED <<call, requests>>
    /\ UNCHANGED streamVars
    /\ UNCHANGED batchVars

NextCall == SendRequest \/ ReceiveReply \/ NextBatch

CallSpec == InitCall /\ [][NextCall]_vars

\* ------------------------------------------------------------------ C12
\* the class the claim gives a status that is not 2xx
StatedKind(status) ==
    IF 400 <= status /\ status < 500 THEN "client-error"
    ELSE IF 500 <= status /\ status < 600 THEN "server-error"
    ELSE "unexpected-status"

\* the kind an error shows to its caller: all are ValueError, the message
\* prefix is what tells them apart
KindOf(e) ==
    IF e.label = "Client error" THEN "client-error"
    ELSE IF e.label = "Server error" THEN "server-error"
    ELSE IF e.label = "Unexpected status code" THEN "unexpected-status"
    ELSE "api-error"

\* the call raised because of the status of the response
StatusRaised == cpc = "raised" /\ reply # NoReply

InvalidCall(c) ==
    \/ c.prompt = ""
    \/ c.op = "Client.evaluate" /\ c.response = ""
    \/ c.op = "LLMLabsClient.chat" /\ None \in {c.model_version, c.model_id_type,
                                                 c.user_created_model_name}

\* C13: every operation rejects invalid input with a ValueError before any
\* HTTP request: an empty prompt, an empty response to Client.evaluate, a
\* missing model_version, model_id_type or user_created_model_name to
\* LLMLabsClient.chat, an empty input list to a batch operation; no request
\* is sent and no worker is started.
C13_RejectedBeforeRequest ==
    /\ (call.op \in SingleOps /\ InvalidCall(call)) =>
          /\ requests = 0
          /\ cpc \in {"called", "raised"}
          /\ cpc = "raised" => (error.type = "ValueError" /\ error.code = 0 /\ reply = NoReply)
    /\ (op \in Ops /\ prompts = <<>>) =>
          /\ bpc \in {"called", "ValueError"}
          /\ future = <<>>
          /\ results = <<>>
          /\ requests = 0

C13_Witness ==
    /\ cpc = "raised"
    /\ call.op = "Client.evaluate"
    /\ call.prompt = "q"
    /\ call.response = ""
    /\ error.label = "Response cannot be empty"
    /\ requests = 0

\* ------------------------------------------------------------------ C14
\* the position in the log of the fragment that opened the block that is
\* open now: the last marker fragment met in normal mode (0 if none)
OpeningIndex(log) ==
    LET open == { k \in 1..Len(log) :
                    log[k].ev = "frag" /\ ~log[k].mode /\ IsEvalMarker(log[k].content) }
    IN IF open = {} THEN 0 ELSE CHOOSE k \in open : \A j \in open : j <= k

\* the log as it was before the open block was opened
BeforeBlock(log) == SubSeq(log, 1, OpeningIndex(log) - 1)

\* the log since the open block was opened
SinceBlock(log) == SubSeq(log, OpeningIndex(log), Len(log))

\* the evaluations of the last payload the log records as parsed
LastEvaluations(log) ==
    LET ps == SelectSeq(log, LAMBDA e : e.ev = "frag" /\ e.parsed # <<>>)
    IN IF ps = <<>> THEN None ELSE GetEvaluations(JsonLoads(Last(ps).parsed))

\* the evaluations a ChatResponse shows for the evaluations of the assembler
Shown(evaluations) ==
    IF enable_evaluations /\ ~Falsy(evaluations) THEN evaluations ELSE None

EndsInBlock == pc = "done" /\ chat.in_evaluation_block /\ OpeningIndex(chat.log) > 0

\* C14 as stated: evaluations and trace_id are what they were before the
\* block was opened.
C14_UnterminatedBlockChangesNothing ==
    EndsInBlock =>
        /\ chat_result.evaluations = Shown(LastEvaluations(BeforeBlock(chat.log)))
        /\ chat_result.trace_id = LastAssigned(BeforeBlock(chat.log))
        /\ chat_result.response = NormalText(BeforeBlock(chat.log))

\* C14 (amended): in Client.chat, if the stream ends while an evaluation
\* block is still being accumulated, the unterminated buffer is dropped: the
\* result's evaluations are what they were before the block was opened, its
\* response holds none of the text met since the block was opened, and its
\* trace_id is what it was before the block was opened unless a chunk with an
\* id key arrived since, in which case it is the id of the last such chunk
\* (never a traceId of the buffer).
C14_UnterminatedBlockDropped ==
    EndsInBlock =>
        LET ids == SelectSeq(SinceBlock(chat.log), LAMBDA e : e.ev = "id")
        IN /\ chat_result.evaluations = Shown(LastEvaluations(BeforeBlock(chat.log)))
           /\ chat_result.response = NormalText(BeforeBlock(chat.log))
           /\ chat_result.trace_id = IF ids = <<>> THEN LastAssigned(BeforeBlock(chat.log))
                                     ELSE Last(ids).id
           /\ \A k \in 1..Len(SinceBlock(chat.log)) : SinceBlock(chat.log)[k].parsed = <<>>

C14_Witness ==
    /\ EndsInBlock
    /\ enable_evaluations
    /\ chat.evaluation_buffer = PayloadE
    /\ LastAssigned(BeforeBlock(chat.log)) = "t1"
    /\ chat_result.evaluations = "ev2"
    /\ chat_result.trace_id = "i2"
    /\ chat_result.response = <<>>

\* ------------------------------------------------------------------ C15
\* the entries the step adds to the log of Client.chat
NewEntries == SubSeq(chat'.log, Len(chat.log) + 1, Len(chat'.log))

\* the step handles one chunk that carries no id and exactly one content
\* fragment, and that fragment does not pass the marker test
OneFragmentStep ==
    /\ Len(consumed') = Len(consumed) + 1
    /\ Len(NewEntries) = 1
    /\ NewEntries[1].ev = "frag"
    /\ ~IsEvalMarker(NewEntries[1].content)

C15_Step ==
    OneFragmentStep =>
        LET content == NewEntries[1].content
            buffer == chat.evaluation_buffer \o content
            obj == JsonLoads(buffer)
        IN IF ~chat.in_evaluation_block
           THEN /\ chat'.stitched_response = chat.stitched_response \o content
                /\ ~chat'.in_evaluation_block
                /\ chat'.evaluations = chat.evaluations
                /\ chat'.trace_id = chat.trace_id
           ELSE IF obj.ok
           THEN /\ chat'.evaluations = GetEvaluations(obj)
                /\ chat'.trace_id = GetTraceId(obj, chat.trace_id)
                /\ chat'.evaluation_buffer = <<>>
                /\ ~chat'.in_evaluation_block
                /\ chat'.stitched_response = chat.stitched_response
                /\ NewEntries[1].parsed = buffer
           ELSE /\ chat'.in_evaluation_block
                /\ chat'.evaluation_buffer = buffer
                /\ chat'.evaluations = chat.evaluations
                /\ chat'.trace_id = chat.trace_id
                /\ chat'.stitched_response = chat.stitched_response
                /\ NewEntries[1].parsed = <<>>

\* C15: in Client.chat, a non-marker fragment met while accumulating is
\* appended to the buffer and the whole buffer is parsed: when it parses as a
\* JSON object the assembler commits evaluations and trace_id, empties the
\* buffer and returns to normal mode; when it does not parse it stays in
\* accumulating mode with evaluations, trace_id and response unchanged. In
\* normal mode (so after every commit) a non-marker fragment is appended to
\* response.
C15_ParseAfterEachFragment == [][C15_Step]_vars

C15_Witness ==
    /\ pc = "reading"
    /\ Len(chat.log) = 3
    /\ chat.log[1] = FragEntry(<<"{", "E2">>, FALSE, <<>>)
    /\ chat.log[2] = FragEntry(<<"T", "}">>, TRUE, PayloadT)
    /\ chat.log[3] = FragEntry(<<"a">>, FALSE, <<>>)
    /\ chat.evaluations = "ev2"
    /\ chat.trace_id = "t1"
    /\ chat.evaluation_buffer = <<>>
    /\ ~chat.in_evaluation_block
    /\ chat.stitched_response = <<"a">>

\* ------------------------------------------------------------------ C16
\* a blank line, a line that does not start with data:, a data: line whose
\* stripped payload is empty or [START]
Ignored(line) ==
    \/ line = BlankLine
    \/ line.tag = "text"
    \/ line.tag = "data" /\ line.payload = "empty"
    \/ line.tag = "data" /\ line.payload = "[START]"

C16_Step ==
    (Len(consumed') = Len(consumed) + 1 /\ Ignored(consumed'[Len(consumed')])) =>
        /\ labs' = labs
        /\ chat' = chat

\* C16: in both chat assemblers a blank line, a line that does not start with
\* data:, and a data: line whose payload after stripping is empty or equals
\* [START] leave the whole assembler state unchanged (response, evaluations,
\* trace_id, model, raw_chunks and, in Client.chat, the accumulating mode and
\* the buffer).
C16_IgnoredLinesChangeNothing == [][C16_Step]_vars

\* a line without the data: prefix was read inside an open evaluation block
\* that the next fragment completed
C16_Witness ==
    /\ pc = "reading"
    /\ consumed = <<Data(Content(<<"{", "E2">>)), TextLine, Data(Content(<<"T", "}">>))>>
    /\ chat.evaluations = "ev2"
    /\ chat.results = <<Content(<<"{", "E2">>), Content(<<"T", "}">>)>>
    /\ labs.results = chat.results
    /\ labs.stitched_response = <<"T", "}">>
    /\ chat.stitched_response = <<>>

\* ------------------------------------------------------------------ C17
\* the content fragments Client.chat has classified, in processing order
FragEntries(log) == SelectSeq(log, LAMBDA e : e.ev = "frag")

\* the last content fragment of the stream passed the marker test
EndsOnOpening ==
    /\ pc = "done"
    /\ FragEntries(chat.log) # <<>>
    /\ IsEvalMarker(Last(FragEntries(chat.log)).content)

\* C17 as stated: such a stream ends with evaluations absent.
C17_OpeningLastMeansAbsent ==
    EndsOnOpening => chat_result.evaluations = None

\* every payload Client.chat parsed was parsed while handling a non-marker
\* fragment met in accumulating mode, after a fragment that opened the block
ParsedOnlyAfterOpening ==
    \A k \in 1..Len(chat.log) :
        (chat.log[k].ev = "frag" /\ chat.log[k].parsed # <<>>) =>
            /\ chat.log[k].mode
            /\ ~IsEvalMarker(chat.log[k].content)
            /\ \E j \in 1..(k - 1) :
                  /\ chat.log[j].ev = "frag"
                  /\ IsEvalMarker(chat.log[j].content)
                  /\ IsPrefix(chat.log[j].content, chat.log[k].parsed)

\* C17 (amended): in Client.chat the fragment that opens an evaluation block
\* is only stored in the buffer and is never parsed on its own: evaluations
\* and the payload's traceId are committed only while processing a content
\* fragment that arrives strictly after the opening fragment, so a stream
\* whose last content fragment is an opening fragment (even a complete JSON
\* one) ends without the evaluations of that fragment: the result's
\* evaluations are those committed before it, absent if there are none.
C17_OpeningNeverParsedAlone ==
    /\ ParsedOnlyAfterOpening
    /\ chat.evaluations = LastEvaluations(chat.log)
    /\ chat.trace_id = LastAssigned(chat.log)
    /\ EndsOnOpening =>
          LET frags == FragEntries(chat.log)
              before == SubSeq(frags, 1, Len(frags) - 1)
          IN /\ Last(frags).parsed = <<>>
             /\ chat.evaluation_buffer = Last(frags).content
             /\ chat_result.evaluations = Shown(LastEvaluations(before))

C17_Witness ==
    /\ EndsOnOpening
    /\ enable_evaluations
    /\ Last(consumed) = Data(Content(PayloadE))
    /\ chat.evaluation_buffer = PayloadE
    /\ chat_result.evaluations = None
    /\ labs_result.evaluations = "ev1"

\* ------------------------------------------------------------------ C18
\* the step handles one chunk that carries no id and exactly one content
\* fragment, that fragment passes the marker test, and the assembler was
\* accumulating
ReopeningStep ==
    /\ Len(consumed') = Len(consumed) + 1
    /\ Len(NewEntries) = 1
    /\ NewEntries[1].ev = "frag"
    /\ IsEvalMarker(NewEntries[1].content)
    /\ chat.in_evaluation_block

C18_State == (chat.evaluation_buffer # <<>>) <=> chat.in_evaluation_block

C18_Step ==
    ReopeningStep =>
        /\ chat'.evaluation_buffer = NewEntries[1].content
        /\ chat'.in_evaluation_block
        /\ chat'.evaluations = chat.evaluations
        /\ chat'.stitched_response = chat.stitched_response

\* C18: in Client.chat a fragment that passes the evaluation-marker test
\* while the assembler is already accumulating replaces the buffer with that
\* fragment (what was accumulated is discarded, not concatenated) and the
\* assembler stays in accumulating mode; in every state the buffer is
\* non-empty exactly when the assembler is in accumulating mode.
C18_MarkerReplacesBuffer == [](C18_State) /\ [][C18_Step]_vars

\* a marker fragment met in accumulating mode, with only it in the buffer
C18_Witness ==
    /\ Len(chat.log) = 2
    /\ chat.log[1] = FragEntry(<<"{", "E2">>, FALSE, <<>>)
    /\ chat.log[2] = FragEntry(PayloadE, TRUE, <<>>)
    /\ chat.evaluation_buffer = PayloadE
    /\ chat.in_evaluation_block

\* ------------------------------------------------------------------ C19
\* the handling of the choice fails: it is not an object, or its content is null
BadChoice(choice) == choice = NotAnObjectChoice \/ choice = NullContentChoice

\* the handling of the decoded chunk fails partway
FailsPartway(ch) ==
    \/ ch.kind # "object"
    \/ ch.hasChoices /\ \E k \in 1..Len(ch.choices) : BadChoice(ch.choices[k])

\* the chunk without its first failing choice and the choices after it
KeptPart(ch) ==
    LET bad == { k \in 1..Len(ch.choices) : BadChoice(ch.choices[k]) }
        first == CHOOSE k \in bad : \A j \in bad : k <= j
    IN [ch EXCEPT !.choices = SubSeq(ch.choices, 1, first - 1)]

C19_Step ==
    LET line == consumed'[Len(consumed')]
        ch == line.chunk
    IN (Len(consumed') = Len(consumed) + 1 /\ line.tag = "data" /\ line.payload = "json"
            /\ FailsPartway(ch)) =>
          /\ pc' = "reading"
          /\ IF ch.kind # "object"
             THEN /\ labs' = [labs EXCEPT !.results = Append(@, ch)]
                  /\ chat' = [chat EXCEPT !.results = Append(@, ch)]
             ELSE /\ labs' = [LabsChunk(labs, KeptPart(ch)) EXCEPT
                                 !.results = Append(labs.results, ch)]
                  /\ chat' = [ChatChunk(chat, KeptPart(ch)) EXCEPT
                                 !.results = Append(chat.results, ch)]

\* C19: in both chat assemblers, when the handling of a decoded chunk fails
\* partway (the chunk is not a JSON object, a choice is not an object, a
\* delta.content is null), the failure is swallowed and the effects already
\* applied are kept: the chunk is in raw_chunks, the model and trace_id it set
\* and the content of its earlier choices remain, its remaining choices are
\* skipped, and the lines after it are still processed.
C19_PartialChunkEffectsKept ==
    /\ [](labs.results = DecodedChunks(consumed) /\ chat.results = DecodedChunks(consumed))
    /\ [][C19_Step]_vars

C19_Witness ==
    /\ pc = "done"
    /\ consumed = <<Data(Chunk("m1", "i1", TRUE, <<Choice(<<"a">>), NullContentChoice, Choice(<<"b">>)>>)),
                    Data(NumberChunk),
                    Data(Chunk(NoKey, NoKey, TRUE, <<Choice(<<"b">>), NotAnObjectChoice, Choice(<<"a">>)>>))>>
    /\ chat_result.response = <<"a", "b">>
    /\ chat_result.model = "m1"
    /\ chat_result.trace_id = "i1"
    /\ Len(chat_result.raw_chunks) = 3
    /\ labs_result.response = <<"a", "b">>
    /\ labs_result.model = "m1"
    /\ labs_result.trace_id = "i1"
    /\ Len(labs_result.raw_chunks) = 3

\* ------------------------------------------------------------------ C20
\* what Client.chat returns for the stream read so far under a setting
ResultUnder(enable) == ChatReturn(ChatRun(ChatInit, consumed), enable)

====
